---- MODULE Spec2Model ----
(***************************************************************************)
(* BotBuilder: the durable bot registry (services/registry.py) and the     *)
(* provisioning conversation (handlers/create_bot.py) with the workspace   *)
(* manager (services/file_manager.py) and the Docker deployment service    *)
(* (services/deployment.py).                                               *)
(*                                                                         *)
(* Handlers are asyncio coroutines: a handler runs atomically between two  *)
(* awaits, and coroutines of different updates interleave at the awaits.   *)
(* Calls into the Docker SDK are blocking, so each is one atomic step.     *)
(*                                                                         *)
(* Three specifications share the registry operators, and two check pure   *)
(* functions over bounded inputs:                                          *)
(*   SpecReg  the six BotRegistry methods driven by concurrent callers;    *)
(*   Spec     the /create conversations and their provisioning runs;       *)
(*   SpecOps  the /status and /stop handlers (handlers/status.py,          *)
(*            handlers/stop_bot.py) over a deployed bot;                   *)
(*   SpecName the name check of process_name over short texts;             *)
(*   SpecPlan ArchitectureAnalyzer.analyze (services/analyzer.py) over     *)
(*            small requirement sets.                                      *)
(***************************************************************************)
EXTENDS Integers, FiniteSets, Sequences, TLC

\* ---------------------------------------------------------------- bounds
MaxClock == 1       \* datetime.now() values are 0..MaxClock
MaxCreates == 2     \* Spec: /create commands accepted in one behaviour
MaxCalls == 2       \* SpecReg: registry calls started in one behaviour
MaxCmds == 3        \* SpecOps: /status and /stop commands in one behaviour
MaxNameLen == 2     \* SpecName: characters in the text sent as a bot name
MaxCommands == 2    \* SpecPlan: entries of requirements.commands

\* ------------------------------------------------------------ input sets
Owners == {1, 2}                      \* message.from_user.id
Names == {"a", "b"}                   \* syntactically valid bot names
Callers == {"k1", "k2"}               \* concurrent callers of BotRegistry, and
                                      \* the handler coroutines of SpecOps
Convs == {"c1", "c2", "c3"}           \* conversations (chat, user) with the bot
Tasks == Callers \cup Convs           \* coroutines that call the registry
NoContainer == 0                      \* container_id None

\* the token each caller or conversation supplies
TokenOf(k) ==
  CASE k = "k1" -> "tokA" [] k = "k2" -> "tokB"
    [] k = "c1" -> "tok1" [] k = "c2" -> "tok2" [] OTHER -> "tok3"

\* message.from_user.id of each conversation: c1 and c2 are two chats of
\* owner 1, c3 is a chat of owner 2
OwnerOf(c) == IF c = "c3" THEN 2 ELSE 1

\* config.py: MAX_BOTS_PER_USER = int(os.getenv("MAX_BOTS_PER_USER", "10")),
\* here configured to 1
MAX_BOTS_PER_USER == 1

\* str(user_id): the decimal rendering used as the document's top-level key
StrOf(u) == IF u = 1 THEN "1" ELSE "2"

EmptyMap == [x \in {} |-> x]

Min(a, b) == IF a <= b THEN a ELSE b

\* the values datetime.now() can return once the clock shows t
Times(t) == t .. Min(t + 1, MaxClock)

VARIABLES
  regState,   \* content of bot_registry.json: "doc" (a JSON document) or
              \* "empty" (opened with 'w', nothing written yet)
  regDoc,     \* the document when regState = "doc": owner key -> name -> record
  now,        \* the wall clock
  deleted,    \* history: keys whose delete_bot returned True and that no
              \* register_bot has written since
  rpc,        \* SpecReg: position of each caller inside its registry call
  rarg,       \* SpecReg: arguments of the call in flight
  rloc,       \* SpecReg: the caller's local `registry` dict
  rret,       \* SpecReg: value returned by the caller's last call
  calls,      \* SpecReg: number of calls started so far
  fsm,        \* Spec: FSM state of each conversation
  data,       \* Spec: FSM data of each conversation (the accepted bot_name)
  pc,         \* Spec: position of the conversation's handler in flight
  cid,        \* Spec: container_id held by process_token
  reply,      \* Spec: the last message the handler sent to the conversation
  tried,      \* Spec, history: stages the current run has entered, in order
  done,       \* Spec, history: stages the current run has completed, in order
  run,        \* Spec, history: the current run's bot name, whether its owner
              \* was at the limit when it began, and whether the name was
              \* registered or its directory present at create_bot_directory
  dirs,       \* BOTS_DIR: bot name -> content of the bot directory
  images,     \* Docker images: bot name -> content the image was built from
  containers, \* Docker containers: id -> [name, status, token]
  nextId,     \* the id the runtime gives the next container
  creates,    \* Spec: number of /create commands accepted so far
  hpc,        \* SpecOps: position of each /status or /stop handler
  harg,       \* SpecOps: the command, its sender and the bot name given
  hbot,       \* SpecOps: the handler's `bot`, as registry.get_bot returned it
  hlive,      \* SpecOps, history: how the handler's Docker call went:
              \* "none" (not made), "ok", "not_found" or "error"
  actual_status, \* SpecOps: the handler's `actual_status`, "None" for None
  answer,     \* SpecOps: what the handler answered last
  cmds,       \* SpecOps: number of commands handled so far
  text,       \* SpecName: message.text, a sequence of characters
  vname,      \* SpecName: bot_name, the text stripped and lowered
  verdict,    \* SpecName: "none", "accepted" or "rejected"
  requirements, \* SpecPlan: the BotRequirements given to analyze
  hashseed,   \* SpecPlan: the string-hash seed of the running interpreter
  plans       \* SpecPlan: the BotArchitectures analyze has returned so far

regVars == <<regState, regDoc, now, deleted>>
callVars == <<rpc, rarg, rloc, rret>>
convVars == <<fsm, data, pc, cid, reply, tried, done, run, creates>>
hostVars == <<dirs, images, containers, nextId>>
opsVars == <<hpc, harg, hbot, hlive, actual_status, answer, cmds>>
pureVars == <<text, vname, verdict, requirements, hashseed, plans>>
vars == <<regState, regDoc, now, deleted, rpc, rarg, rloc, rret, calls,
          fsm, data, pc, cid, reply, tried, done, run, dirs, images, containers,
          nextId, creates, hpc, harg, hbot, hlive, actual_status, answer, cmds,
          text, vname, verdict, requirements, hashseed, plans>>

\* ------------------------------------------------- BotRegistry, pure part

\* _load_registry: json.loads(content) if content else {}
load_registry(st, doc) == IF st = "doc" THEN doc ELSE EmptyMap

\* _load_registry, line 28: opening a file that is not there for reading
\* raises FileNotFoundError; no method of BotRegistry catches it
load_raises(st) == st = "absent"

\* _ensure_registry_exists: the document in the file after the constructor
\* has run on a file in state st holding doc
ensure_registry_exists(st, doc) == IF st = "absent" THEN EmptyMap ELSE doc

\* registry.get(str(user_id), {})
get_user_bots(registry, u) ==
  IF StrOf(u) \in DOMAIN registry THEN registry[StrOf(u)] ELSE EmptyMap

HasBot(registry, u, n) ==
  StrOf(u) \in DOMAIN registry /\ n \in DOMAIN registry[StrOf(u)]

\* bots.get(bot_name): the record, or None (modelled as the empty map)
get_bot(registry, u, n) ==
  IF n \in DOMAIN get_user_bots(registry, u)
  THEN get_user_bots(registry, u)[n] ELSE EmptyMap

count_user_bots(registry, u) == Cardinality(DOMAIN get_user_bots(registry, u))

\* registry[key][name] = value, keeping every other entry
PutBot(registry, u, n, rec) ==
  LET bots == get_user_bots(registry, u)
      nbots == [x \in DOMAIN bots \cup {n} |-> IF x = n THEN rec ELSE bots[x]]
  IN [o \in DOMAIN registry \cup {StrOf(u)} |->
        IF o = StrOf(u) THEN nbots ELSE registry[o]]

\* register_bot without its name check: an insertion that overwrites
register_bot_free_upsert(registry, u, n) == TRUE

\* register_bot, lines 48-54: the name check; True when the call goes on
register_bot_free(registry, u, n) == ~HasBot(registry, u, n)

\* register_bot, lines 57-63
register_bot_put(registry, u, n, tok, ctr, st, t1, t2) ==
  PutBot(registry, u, n,
         [bot_token |-> tok, container_id |-> ctr, status |-> st,
          created_at |-> t1, updated_at |-> t2])

\* update_bot_status testing the owner key only
update_bot_status_found_owner(registry, u, n) == StrOf(u) \in DOMAIN registry

\* update_bot_status, line 88: True when the record is there
update_bot_status_found(registry, u, n) == HasBot(registry, u, n)

\* delete_bot, line 105: True when the record is there
delete_bot_found(registry, u, n) == HasBot(registry, u, n)

\* update_bot_status, lines 91-96
update_bot_status_put(registry, u, n, st, ctr, t) ==
  LET bot == registry[StrOf(u)][n]
      b1 == [bot EXCEPT !.status = st, !.updated_at = t]
      b2 == IF ctr # NoContainer THEN [b1 EXCEPT !.container_id = ctr] ELSE b1
  IN PutBot(registry, u, n, b2)

\* delete_bot, lines 108-112
delete_bot_del(registry, u, n) ==
  LET bots == registry[StrOf(u)]
      nbots == [x \in DOMAIN bots \ {n} |-> bots[x]]
  IN IF DOMAIN nbots = {}
     THEN [o \in DOMAIN registry \ {StrOf(u)} |-> registry[o]]
     ELSE [o \in DOMAIN registry |-> IF o = StrOf(u) THEN nbots ELSE registry[o]]

\* what a reader of the file sees now
Stored == load_registry(regState, regDoc)

\* ------------------------------------------------ SpecReg: registry calls

NoArg == [op |-> "none", user_id |-> 1, bot_name |-> "a", bot_token |-> "",
          container_id |-> NoContainer, status |-> ""]

\* return values: nothing yet, the booleans of the writing methods, or the
\* value of a reading method
NoRet == [ok |-> "none", val |-> 0]
RetTrue == [ok |-> "True", val |-> 0]
RetFalse == [ok |-> "False", val |-> 0]
RetRaise == [ok |-> "FileNotFoundError", val |-> 0]

\* the arguments a caller can pass: get_bot of any key, the two listings of
\* any owner; register_bot with the caller's token and a container id, as
\* process_token calls it; update_bot_status with and without a container id;
\* delete_bot of any key
ReadArgs ==
  {[op |-> "get_bot", user_id |-> u, bot_name |-> n, bot_token |-> "",
    container_id |-> NoContainer, status |-> ""] : u \in Owners, n \in Names}
  \cup
  {[op |-> op, user_id |-> u, bot_name |-> "a", bot_token |-> "",
    container_id |-> NoContainer, status |-> ""] :
      op \in {"get_user_bots", "count_user_bots"}, u \in Owners}

WriteArgs(k) ==
  {[op |-> "register_bot", user_id |-> u, bot_name |-> n,
    bot_token |-> TokenOf(k), container_id |-> 2, status |-> "running"] :
      u \in Owners, n \in Names}
  \cup
  {[op |-> "update_bot_status", user_id |-> u, bot_name |-> n, bot_token |-> "",
    container_id |-> ctr, status |-> "stopped"] :
      u \in Owners, n \in Names, ctr \in {NoContainer, 3}}
  \cup
  {[op |-> "delete_bot", user_id |-> u, bot_name |-> n, bot_token |-> "",
    container_id |-> NoContainer, status |-> ""] : u \in Owners, n \in Names}

CanCall(k) == rpc[k] \in {"idle", "ret"} /\ calls < MaxCalls

\* get_bot / get_user_bots / count_user_bots: load and return
ReadCall(k) ==
  /\ CanCall(k)
  /\ \E a \in ReadArgs :
       /\ rarg' = [rarg EXCEPT ![k] = a]
       /\ rret' = [rret EXCEPT ![k] =
            IF load_raises(regState) THEN RetRaise
            ELSE [ok |-> "value", val |->
                 CASE a.op = "get_bot" -> get_bot(Stored, a.user_id, a.bot_name)
                   [] a.op = "get_user_bots" -> get_user_bots(Stored, a.user_id)
                   [] OTHER -> count_user_bots(Stored, a.user_id)]]
  /\ rpc' = [rpc EXCEPT ![k] = "ret"]
  /\ rloc' = [rloc EXCEPT ![k] = EmptyMap]
  /\ calls' = calls + 1
  /\ UNCHANGED <<regVars, convVars, hostVars,
               opsVars, pureVars>>

\* register_bot / update_bot_status / delete_bot: `await self._load_registry()`
\* and the membership test that follows it, for task k calling with a
LoadWith(k, a) ==
  LET go == IF load_raises(regState) THEN FALSE
            ELSE IF a.op = "register_bot"
            THEN register_bot_free(Stored, a.user_id, a.bot_name)
            ELSE IF a.op = "update_bot_status"
            THEN update_bot_status_found(Stored, a.user_id, a.bot_name)
            ELSE delete_bot_found(Stored, a.user_id, a.bot_name)
  IN /\ rarg' = [rarg EXCEPT ![k] = a]
     /\ rloc' = [rloc EXCEPT ![k] = IF go THEN Stored ELSE EmptyMap]
     /\ rpc' = [rpc EXCEPT ![k] = IF go THEN "mutate" ELSE "ret"]
     /\ rret' = [rret EXCEPT ![k] = IF go THEN NoRet
                                    ELSE IF load_raises(regState) THEN RetRaise
                                    ELSE RetFalse]

LoadCall(k) ==
  /\ CanCall(k)
  /\ \E a \in WriteArgs(k) : LoadWith(k, a)
  /\ calls' = calls + 1
  /\ UNCHANGED <<regVars, convVars, hostVars,
               opsVars, pureVars>>

\* the change made to the local dict, reading the clock where the code does
MutateCall(k) ==
  /\ rpc[k] = "mutate"
  /\ LET a == rarg[k] IN
       CASE a.op = "register_bot" ->
              \E t1 \in Times(now) : \E t2 \in Times(t1) :
                /\ now' = t2
                /\ rloc' = [rloc EXCEPT ![k] =
                     register_bot_put(rloc[k], a.user_id, a.bot_name, a.bot_token,
                                      a.container_id, a.status, t1, t2)]
         [] a.op = "update_bot_status" ->
              \E t \in Times(now) :
                /\ now' = t
                /\ rloc' = [rloc EXCEPT ![k] =
                     update_bot_status_put(rloc[k], a.user_id, a.bot_name,
                                           a.status, a.container_id, t)]
         [] OTHER ->
              /\ now' = now
              /\ rloc' = [rloc EXCEPT ![k] =
                   delete_bot_del(rloc[k], a.user_id, a.bot_name)]
  /\ rpc' = [rpc EXCEPT ![k] = "open"]
  /\ UNCHANGED <<regState, regDoc, deleted, rarg, rret, calls, convVars, hostVars,
               opsVars, pureVars>>

\* _save_registry: aiofiles.open(registry_file, 'w') truncates the file
OpenCall(k) ==
  /\ rpc[k] = "open"
  /\ regState' = "empty"
  /\ regDoc' = EmptyMap
  /\ rpc' = [rpc EXCEPT ![k] = "write"]
  /\ UNCHANGED <<now, deleted, rarg, rloc, rret, calls, convVars, hostVars,
               opsVars, pureVars>>

\* _save_registry: the document is written and the method returns True
WriteCall(k) ==
  /\ rpc[k] = "write"
  /\ regState' = "doc"
  /\ regDoc' = rloc[k]
  /\ rpc' = [rpc EXCEPT ![k] = "ret"]
  /\ rret' = [rret EXCEPT ![k] = RetTrue]
  /\ rloc' = [rloc EXCEPT ![k] = EmptyMap]
  /\ deleted' = CASE rarg[k].op = "delete_bot" ->
                       deleted \cup {<<rarg[k].user_id, rarg[k].bot_name>>}
                  [] rarg[k].op = "register_bot" ->
                       deleted \ {<<rarg[k].user_id, rarg[k].bot_name>>}
                  [] OTHER -> deleted
  /\ UNCHANGED <<now, rarg, calls, convVars, hostVars,
               opsVars, pureVars>>

NoReq == [features |-> {}, commands |-> <<>>, language |-> "python",
          needs_database |-> FALSE, needs_payments |-> FALSE,
          needs_api |-> FALSE]

NoCmd == [cmd |-> "none", user_id |-> 1, bot_name |-> "a"]

NoRun == [name |-> "", atLimit |-> FALSE, taken |-> FALSE]

\* no coroutine is running and no conversation has begun
InitTasks ==
  /\ rpc = [k \in Tasks |-> "idle"]
  /\ rarg = [k \in Tasks |-> NoArg]
  /\ rloc = [k \in Tasks |-> EmptyMap]
  /\ rret = [k \in Tasks |-> NoRet]
  /\ calls = 0
  /\ fsm = [c \in Convs |-> "none"]
  /\ data = [c \in Convs |-> ""]
  /\ pc = [c \in Convs |-> "idle"]
  /\ cid = [c \in Convs |-> NoContainer]
  /\ reply = [c \in Convs |-> ""]
  /\ tried = [c \in Convs |-> <<>>]
  /\ done = [c \in Convs |-> <<>>]
  /\ run = [c \in Convs |-> NoRun]
  /\ creates = 0
  /\ hpc = [k \in Callers |-> "idle"]
  /\ harg = [k \in Callers |-> NoCmd]
  /\ hbot = [k \in Callers |-> EmptyMap]
  /\ hlive = [k \in Callers |-> "none"]
  /\ actual_status = [k \in Callers |-> "None"]
  /\ answer = [k \in Callers |-> ""]
  /\ cmds = 0

\* no name is being checked and no analysis has run
InitPure ==
  /\ text = <<>>
  /\ vname = <<>>
  /\ verdict = "none"
  /\ requirements = NoReq
  /\ hashseed = 0
  /\ plans = {}

\* BOTS_DIR is empty and the Docker daemon has no image and no container
InitHost ==
  /\ dirs = EmptyMap
  /\ images = EmptyMap
  /\ containers = EmptyMap
  /\ nextId = 1

\* a record written by an earlier register_bot at time 0
OldBot == [bot_token |-> "tok0", container_id |-> 1, status |-> "running",
           created_at |-> 0, updated_at |-> 0]

\* documents the file can hold when the callers start: `{}` as written by
\* BotRegistry.__init__, or the result of earlier registrations
InitDocs ==
  {EmptyMap,
   [o \in {"1"} |-> [n \in {"a"} |-> OldBot]],
   [o \in {"1", "2"} |-> [n \in {"a"} |-> OldBot]]}

InitReg ==
  /\ regState = "doc"
  /\ regDoc \in InitDocs
  /\ now = 0
  /\ deleted = {}
  /\ InitTasks
  /\ InitHost
  /\ InitPure

NextReg ==
  \E k \in Callers :
    \/ ReadCall(k)
    \/ LoadCall(k)
    \/ MutateCall(k)
    \/ OpenCall(k)
    \/ WriteCall(k)

SpecReg == InitReg /\ [][NextReg]_vars

\* ------------------------------ SpecFile: the registry file can go missing

\* the process starts with or without bot_registry.json, and the module-level
\* BotRegistry() of the handlers has run _ensure_registry_exists
InitFile ==
  /\ regState = "doc"
  /\ \E st \in {"absent", "doc"}, d \in InitDocs :
       regDoc = ensure_registry_exists(st, d)
  /\ now = 0
  /\ deleted = {}
  /\ InitTasks
  /\ InitHost
  /\ InitPure

\* the environment removes bot_registry.json while the process runs (an
\* operator resetting the store); no writer has the file open
RemoveFile ==
  /\ regState # "absent"
  /\ \A k \in Callers : rpc[k] # "write"
  /\ regState' = "absent"
  /\ regDoc' = EmptyMap
  /\ UNCHANGED <<now, deleted, callVars, calls, convVars, hostVars,
               opsVars, pureVars>>

NextFile ==
  \/ RemoveFile
  \/ \E k \in Callers :
       \/ ReadCall(k)
       \/ LoadCall(k)
       \/ MutateCall(k)
       \/ OpenCall(k)
       \/ WriteCall(k)

SpecFile == InitFile /\ [][NextFile]_vars

\* ------------------------------------------- Spec: /create conversations

\* what the user can type as a bot name, and message.text.strip().lower()
NameInputs == {"a", " A ", "b", "bad name"}
Normalize(raw) == IF raw = " A " THEN "a" ELSE raw

\* process_name, line 85: the name with '_' and '-' removed is alphanumeric
NameIsValid(name) == name \in Names

\* FileManager.bot_exists
bot_exists(n) == n \in DOMAIN dirs

\* the container called botbuilder-<n>, if any
ContainersNamed(n) == {i \in DOMAIN containers : containers[i].name = n}

Without(f, xs) == [x \in DOMAIN f \ xs |-> f[x]]
With(f, x, v) == [y \in DOMAIN f \cup {x} |-> IF y = x THEN v ELSE f[y]]

Idle(c) == pc[c] = "idle"

\* an except branch that calls file_manager.cleanup_bot(bot_name)
except_dirs_cleanup(ds, n) == Without(ds, {n})

\* BOTS_DIR after the except branch of process_token, lines 191-194: the
\* branch edits the message and clears the FSM state, nothing else
except_dirs(ds, n) == ds

\* an end of the run that reports but leaves the FSM state as it is
Fail_keep_state(c, msg) ==
  /\ reply' = [reply EXCEPT ![c] = msg]
  /\ pc' = [pc EXCEPT ![c] = "idle"]
  /\ UNCHANGED <<fsm, data>>

\* the except branch of process_token, lines 191-194, and the end of the run
Fail(c, msg) ==
  /\ reply' = [reply EXCEPT ![c] = msg]
  /\ fsm' = [fsm EXCEPT ![c] = "none"]
  /\ data' = [data EXCEPT ![c] = ""]
  /\ pc' = [pc EXCEPT ![c] = "idle"]

\* the run goes on to its next stage
Goto(c, stage) ==
  /\ pc' = [pc EXCEPT ![c] = stage]
  /\ UNCHANGED <<fsm, data, reply>>

Enter(c, stage) == tried' = [tried EXCEPT ![c] = Append(tried[c], stage)]
Complete(c, stage) == done' = [done EXCEPT ![c] = Append(done[c], stage)]

\* a validation branch that answers and also clears the FSM state
Reject_clear(c, msg) ==
  /\ reply' = [reply EXCEPT ![c] = msg]
  /\ fsm' = [fsm EXCEPT ![c] = "none"]
  /\ data' = [data EXCEPT ![c] = ""]

\* a validation branch of process_description, process_name or
\* process_token: message.answer(...) and return
Reject(c, msg) ==
  /\ reply' = [reply EXCEPT ![c] = msg]
  /\ UNCHANGED <<fsm, data>>

\* create_command: the limit check, then waiting_description
CreateCommand(c) ==
  /\ Idle(c)
  /\ IF count_user_bots(Stored, OwnerOf(c)) >= MAX_BOTS_PER_USER
     THEN /\ reply' = [reply EXCEPT ![c] = "limit"]
          /\ UNCHANGED <<fsm, creates, opsVars, pureVars>>
     ELSE /\ creates < MaxCreates
          /\ creates' = creates + 1
          /\ reply' = [reply EXCEPT ![c] = "describe"]
          /\ fsm' = [fsm EXCEPT ![c] = "waiting_description"]
  /\ UNCHANGED <<regVars, callVars, calls, hostVars, data, pc, cid, tried, done,
                 run, opsVars, pureVars>>

\* process_description: at least 10 characters, then waiting_name
ProcessDescription(c) ==
  /\ Idle(c)
  /\ fsm[c] = "waiting_description"
  /\ \E longEnough \in BOOLEAN :
       IF longEnough
       THEN /\ reply' = [reply EXCEPT ![c] = "name"]
            /\ fsm' = [fsm EXCEPT ![c] = "waiting_name"]
            /\ UNCHANGED data
       ELSE Reject(c, "short")
  /\ UNCHANGED <<regVars, callVars, calls, hostVars, pc, cid, tried, done,
                 run, creates, opsVars, pureVars>>

\* process_name: syntax, registry.get_bot, file_manager.bot_exists, then
\* waiting_token
ProcessName(c) ==
  /\ Idle(c)
  /\ fsm[c] = "waiting_name"
  /\ \E raw \in NameInputs :
       LET bot_name == Normalize(raw) IN
       IF ~NameIsValid(bot_name)
       THEN Reject(c, "invalid_name")
       ELSE IF get_bot(Stored, OwnerOf(c), bot_name) # EmptyMap
       THEN Reject(c, "taken")
       ELSE IF bot_exists(bot_name)
       THEN Reject(c, "conflict")
       ELSE /\ reply' = [reply EXCEPT ![c] = "token"]
            /\ data' = [data EXCEPT ![c] = bot_name]
            /\ fsm' = [fsm EXCEPT ![c] = "waiting_token"]
  /\ UNCHANGED <<regVars, callVars, calls, hostVars, pc, cid, tried, done, run,
                 creates, opsVars, pureVars>>

\* process_token, lines 119-148: the token format, then parse, analyze and
\* generate_bot, which touch nothing outside the handler
ProcessToken(c) ==
  /\ Idle(c)
  /\ fsm[c] = "waiting_token"
  /\ \E wellFormed \in BOOLEAN, generated \in BOOLEAN :
       IF ~wellFormed
       THEN /\ Reject(c, "invalid_token")
            /\ UNCHANGED <<pc, cid, tried, done, run>>
       ELSE /\ IF generated
               THEN /\ reply' = [reply EXCEPT ![c] = "processing"]
                    /\ pc' = [pc EXCEPT ![c] = "mkdir"]
                    /\ UNCHANGED <<fsm, data>>
               ELSE Fail(c, "err_generate")
            /\ cid' = [cid EXCEPT ![c] = NoContainer]
            /\ tried' = [tried EXCEPT ![c] = <<>>]
            /\ done' = [done EXCEPT ![c] = <<>>]
            /\ run' = [run EXCEPT ![c] =
                 [name |-> data[c],
                  atLimit |-> count_user_bots(Stored, OwnerOf(c))
                                >= MAX_BOTS_PER_USER,
                  taken |-> FALSE]]
  /\ UNCHANGED <<regVars, callVars, calls, hostVars, creates, opsVars, pureVars>>

\* file_manager.create_bot_directory: mkdir(exist_ok=True)
MkDir(c) ==
  /\ pc[c] = "mkdir"
  /\ Enter(c, "materialize")
  /\ run' = [run EXCEPT ![c].taken =
               HasBot(Stored, OwnerOf(c), data[c]) \/ bot_exists(data[c])]
  /\ \E ok \in BOOLEAN :
       IF ok
       THEN /\ dirs' = IF bot_exists(data[c]) THEN dirs
                       ELSE With(dirs, data[c], "skeleton")
            /\ Goto(c, "write_files")
       ELSE /\ Fail(c, "err_mkdir")
            /\ dirs' = except_dirs(dirs, data[c])
  /\ UNCHANGED <<regVars, callVars, calls, images, containers, nextId, cid, done,
                 creates, opsVars, pureVars>>

\* file_manager.write_files: every generated file of this run, or an error
\* after some of them
WriteFiles(c) ==
  /\ pc[c] = "write_files"
  /\ \E ok \in BOOLEAN :
       IF ok
       THEN /\ dirs' = With(dirs, data[c], TokenOf(c))
            /\ Complete(c, "materialize")
            /\ Goto(c, "build")
       ELSE /\ dirs' = except_dirs(With(dirs, data[c], "partial"), data[c])
            /\ Fail(c, "err_write")
            /\ UNCHANGED done
  /\ UNCHANGED <<regVars, callVars, calls, images, containers, nextId, cid, tried,
                 run, creates, opsVars, pureVars>>

\* pipeline checks after a stage: `if not image_tag: raise`, lines 157-159
AfterBuild(built) == IF built THEN "create" ELSE "fail"

\* `if not container_id: raise`, lines 163-165
AfterCreate(created) == IF created THEN "start" ELSE "fail"

\* process_token going on to register_bot whatever start_container returned
AfterStartUnchecked(started) == "register"

\* `if not started: raise`, lines 169-171
AfterStart(started) == IF started THEN "register" ELSE "fail"

\* deployment.build_image: the image tag, or None; there is nothing to build
\* from when the directory is missing
BuildImage(c) ==
  /\ pc[c] = "build"
  /\ Enter(c, "build")
  /\ \E built \in IF bot_exists(data[c]) THEN BOOLEAN ELSE {FALSE} :
       /\ images' = IF built THEN With(images, data[c], dirs[data[c]]) ELSE images
       /\ IF AfterBuild(built) = "fail"
          THEN /\ Fail(c, "err_build")
               /\ dirs' = except_dirs(dirs, data[c])
               /\ UNCHANGED done
          ELSE /\ Goto(c, AfterBuild(built))
               /\ Complete(c, "build")
               /\ UNCHANGED dirs
  /\ UNCHANGED <<regVars, callVars, calls, containers, nextId, cid, run,
                 creates, opsVars, pureVars>>

\* a create_container that does not look for a container of that name
remove_existing_none(cs, n) == cs

\* create_container, lines 74-79: containers.get(container_name) and
\* existing.remove(force=True)
remove_existing(cs, n) == Without(cs, {i \in DOMAIN cs : cs[i].name = n})

\* deployment.create_container: force-remove the container of that name, then
\* create; the SDK can fail before the removal, or after it
CreateContainer(c) ==
  /\ pc[c] = "create"
  /\ Enter(c, "create")
  /\ \E result \in {"created", "failed_early", "failed_late"} :
       LET kept == IF result = "failed_early" THEN containers
                   ELSE remove_existing(containers, data[c])
       IN /\ containers' =
               IF result = "created"
               THEN With(kept, nextId, [name |-> data[c], status |-> "created",
                                        token |-> TokenOf(c)])
               ELSE kept
          /\ nextId' = IF result = "created" THEN nextId + 1 ELSE nextId
          /\ cid' = [cid EXCEPT ![c] = IF result = "created" THEN nextId
                                       ELSE NoContainer]
          /\ IF AfterCreate(result = "created") = "fail"
             THEN /\ Fail(c, "err_create")
                  /\ dirs' = except_dirs(dirs, data[c])
                  /\ UNCHANGED done
             ELSE /\ Goto(c, AfterCreate(result = "created"))
                  /\ Complete(c, "create")
                  /\ UNCHANGED dirs
  /\ UNCHANGED <<regVars, callVars, calls, images, run, creates, opsVars, pureVars>>

\* a start_container whose failed start leaves the container marked dead
start_container_dead(cs, i, accepted) ==
  IF i \notin DOMAIN cs THEN cs
  ELSE [cs EXCEPT ![i].status = IF accepted THEN "running" ELSE "dead"]

\* start_container, lines 102-106: containers.get(container_id) and
\* container.start(); an exception of either leaves the runtime as it was
start_container(cs, i, accepted) ==
  IF i \in DOMAIN cs /\ accepted THEN [cs EXCEPT ![i].status = "running"] ELSE cs

\* deployment.start_container: False when the container is gone or the
\* runtime refuses
StartContainer(c) ==
  /\ pc[c] = "start"
  /\ Enter(c, "start")
  /\ \E accepted \in BOOLEAN :
       LET started == cid[c] \in DOMAIN containers /\ accepted
       IN /\ containers' = start_container(containers, cid[c], accepted)
          /\ done' = [done EXCEPT ![c] = IF started THEN Append(done[c], "start")
                                         ELSE done[c]]
          /\ IF AfterStart(started) = "fail"
             THEN Fail(c, "err_start") /\ dirs' = except_dirs(dirs, data[c])
             ELSE Goto(c, AfterStart(started)) /\ UNCHANGED dirs
  /\ UNCHANGED <<regVars, callVars, calls, images, nextId, cid, run, creates,
                 opsVars, pureVars>>

\* process_token, line 174: registry.register_bot(user_id, bot_name, bot_token,
\* container_id, "running"), up to its name check
RegisterLoad(c) ==
  /\ pc[c] = "register"
  /\ rpc[c] = "idle"
  /\ Enter(c, "register")
  /\ LoadWith(c, [op |-> "register_bot", user_id |-> OwnerOf(c),
                  bot_name |-> data[c], bot_token |-> TokenOf(c),
                  container_id |-> cid[c], status |-> "running"])
  /\ UNCHANGED <<regVars, calls, hostVars, fsm, data, pc, cid, reply, done, run,
                 creates, opsVars, pureVars>>

\* process_token, lines 176-189: register_bot has returned, its value is not
\* looked at; the success message and state.clear()
ReportSuccess(c) ==
  /\ pc[c] = "register"
  /\ rpc[c] = "ret"
  /\ Fail(c, "deployed")
  /\ done' = [done EXCEPT ![c] = IF rret[c] = RetTrue
                                 THEN Append(done[c], "register") ELSE done[c]]
  /\ rpc' = [rpc EXCEPT ![c] = "idle"]
  /\ UNCHANGED <<regVars, rarg, rloc, rret, calls, hostVars, cid, tried, run,
                 creates, opsVars, pureVars>>

\* a fresh installation; the timestamps play no part in provisioning, so
\* the clock starts at its last modelled value
Init ==
  /\ regState = "doc"
  /\ regDoc = EmptyMap
  /\ now = MaxClock
  /\ deleted = {}
  /\ InitTasks
  /\ InitHost
  /\ InitPure

Next ==
  \E c \in Convs :
    \/ CreateCommand(c)
    \/ ProcessDescription(c)
    \/ ProcessName(c)
    \/ ProcessToken(c)
    \/ MkDir(c)
    \/ WriteFiles(c)
    \/ BuildImage(c)
    \/ CreateContainer(c)
    \/ StartContainer(c)
    \/ RegisterLoad(c)
    \/ MutateCall(c)
    \/ OpenCall(c)
    \/ WriteCall(c)
    \/ ReportSuccess(c)

Spec == Init /\ [][Next]_vars

\* ------------------------- SpecLive: two conversations, runs are scheduled

\* the conversations of owner 1
LiveConvs == {"c1", "c2"}

\* a step of the process_token coroutine of c after its first await
RunStep(c) ==
  \/ MkDir(c)
  \/ WriteFiles(c)
  \/ BuildImage(c)
  \/ CreateContainer(c)
  \/ StartContainer(c)
  \/ RegisterLoad(c)
  \/ MutateCall(c)
  \/ OpenCall(c)
  \/ WriteCall(c)
  \/ ReportSuccess(c)

NextLive ==
  \E c \in LiveConvs :
    \/ CreateCommand(c)
    \/ ProcessDescription(c)
    \/ ProcessName(c)
    \/ ProcessToken(c)
    \/ RunStep(c)

\* the event loop resumes a coroutine whose awaited call has returned, and
\* the blocking Docker SDK calls return; what users send is not forced
SpecLive ==
  Init /\ [][NextLive]_vars /\ \A c \in LiveConvs : WF_vars(RunStep(c))

\* ------------------------------------------- SpecOps: /status and /stop

\* the arguments of registry.update_bot_status(user_id, bot_name, status)
UpdateArgs(k, st) ==
  [op |-> "update_bot_status", user_id |-> harg[k].user_id,
   bot_name |-> harg[k].bot_name, bot_token |-> "",
   container_id |-> NoContainer, status |-> st]

\* how a call into the Docker daemon went
Outcome(cs, i, reachable) ==
  IF ~reachable THEN "error" ELSE IF i \in DOMAIN cs THEN "ok" ELSE "not_found"

\* get_container_status: container.status as Docker reports it, None when
\* the container is not found or the call raises
get_container_status(cs, i, reachable) ==
  IF reachable /\ i \in DOMAIN cs THEN cs[i].status ELSE "None"

\* a /status that shows a failed query as the status error
status_shown_error(stored, actual) ==
  IF actual # "None" THEN actual ELSE "error"

\* status.py, lines 34-40: bot.get("status"), replaced by actual_status when
\* there is one
status_shown(stored, actual) ==
  IF actual # "None" THEN actual ELSE stored

\* a stop_container that fails for a container that is not running
stop_container_ok_running(cs, i, reachable) ==
  reachable /\ i \in DOMAIN cs /\ cs[i].status = "running"

\* stop_container: True unless containers.get or container.stop raised
stop_container_ok(cs, i, reachable) == reachable /\ i \in DOMAIN cs

\* container.stop(): a running container exits, any other stays as it is
stop_container(cs, i, reachable) ==
  IF reachable /\ i \in DOMAIN cs
  THEN [cs EXCEPT ![i].status = IF @ = "running" THEN "exited" ELSE @]
  ELSE cs

CanHandle(k) == hpc[k] = "idle" /\ rpc[k] = "idle" /\ cmds < MaxCmds

\* message.answer(...) and the end of the handler
Answer(k, msg) ==
  /\ answer' = [answer EXCEPT ![k] = msg]
  /\ hpc' = [hpc EXCEPT ![k] = "idle"]

\* /status <bot_name>, lines 17-34: registry.get_bot for the sender
StatusCommand(k) ==
  /\ CanHandle(k)
  /\ cmds' = cmds + 1
  /\ \E u \in Owners, n \in Names :
       /\ harg' = [harg EXCEPT ![k] =
                     [cmd |-> "status", user_id |-> u, bot_name |-> n]]
       /\ hbot' = [hbot EXCEPT ![k] = get_bot(Stored, u, n)]
       /\ IF get_bot(Stored, u, n) = EmptyMap
          THEN Answer(k, "not_found")
          ELSE hpc' = [hpc EXCEPT ![k] = "get_status"] /\ UNCHANGED answer
  /\ hlive' = [hlive EXCEPT ![k] = "none"]
  /\ actual_status' = [actual_status EXCEPT ![k] = "None"]
  /\ UNCHANGED <<regVars, callVars, calls, convVars, pureVars, hostVars>>

\* /status, lines 37-46: deployment.get_container_status, then either the
\* answer or, when the live status differs from the one read, the call of
\* registry.update_bot_status
GetStatus(k) ==
  /\ hpc[k] = "get_status"
  /\ IF hbot[k].container_id = NoContainer
     THEN /\ Answer(k, status_shown(hbot[k].status, "None"))
          /\ UNCHANGED <<hlive, actual_status>>
     ELSE \E reachable \in BOOLEAN :
            LET actual == get_container_status(containers,
                                               hbot[k].container_id, reachable)
            IN /\ hlive' = [hlive EXCEPT ![k] =
                    Outcome(containers, hbot[k].container_id, reachable)]
               /\ actual_status' = [actual_status EXCEPT ![k] = actual]
               /\ IF actual # "None" /\ actual # hbot[k].status
                  THEN /\ hpc' = [hpc EXCEPT ![k] = "status_update"]
                       /\ UNCHANGED answer
                  ELSE Answer(k, status_shown(hbot[k].status, actual))
  /\ UNCHANGED <<regVars, callVars, calls, convVars, pureVars, hostVars, harg, hbot, cmds>>

\* /status, line 43: update_bot_status(user_id, bot_name, actual_status), up
\* to its membership test
StatusUpdate(k) ==
  /\ hpc[k] = "status_update"
  /\ LoadWith(k, UpdateArgs(k, actual_status[k]))
  /\ hpc' = [hpc EXCEPT ![k] = "status_answer"]
  /\ UNCHANGED <<regVars, calls, convVars, pureVars, hostVars, harg, hbot, hlive,
                 actual_status, answer, cmds>>

\* /status, lines 45-46: update_bot_status has returned, its value is not
\* looked at; the answer shows the live status
StatusAnswer(k) ==
  /\ hpc[k] = "status_answer"
  /\ rpc[k] = "ret"
  /\ Answer(k, status_shown(hbot[k].status, actual_status[k]))
  /\ rpc' = [rpc EXCEPT ![k] = "idle"]
  /\ UNCHANGED <<regVars, rarg, rloc, rret, calls, convVars, pureVars, hostVars, harg,
                 hbot, hlive, actual_status, cmds>>

\* /stop <bot_name>, lines 17-36: registry.get_bot for the sender
StopCommand(k) ==
  /\ CanHandle(k)
  /\ cmds' = cmds + 1
  /\ \E u \in Owners, n \in Names :
       /\ harg' = [harg EXCEPT ![k] =
                     [cmd |-> "stop", user_id |-> u, bot_name |-> n]]
       /\ hbot' = [hbot EXCEPT ![k] = get_bot(Stored, u, n)]
       /\ IF get_bot(Stored, u, n) = EmptyMap
          THEN Answer(k, "not_found")
          ELSE IF get_bot(Stored, u, n).container_id = NoContainer
          THEN Answer(k, "no_container")
          ELSE hpc' = [hpc EXCEPT ![k] = "stop"] /\ UNCHANGED answer
  /\ hlive' = [hlive EXCEPT ![k] = "none"]
  /\ actual_status' = [actual_status EXCEPT ![k] = "None"]
  /\ UNCHANGED <<regVars, callVars, calls, convVars, pureVars, hostVars>>

\* /stop, lines 39-44: deployment.stop_container, then the error answer or
\* the call of registry.update_bot_status
StopContainer(k) ==
  /\ hpc[k] = "stop"
  /\ \E reachable \in BOOLEAN :
       /\ hlive' = [hlive EXCEPT ![k] =
            Outcome(containers, hbot[k].container_id, reachable)]
       /\ containers' = stop_container(containers, hbot[k].container_id,
                                       reachable)
       /\ IF stop_container_ok(containers, hbot[k].container_id, reachable)
          THEN hpc' = [hpc EXCEPT ![k] = "stop_update"] /\ UNCHANGED answer
          ELSE Answer(k, "stop_failed")
  /\ UNCHANGED <<regVars, callVars, calls, convVars, pureVars, dirs, images, nextId, harg,
                 hbot, actual_status, cmds>>

\* /stop, line 41: update_bot_status(user_id, bot_name, "stopped"), up to its
\* membership test
StopUpdate(k) ==
  /\ hpc[k] = "stop_update"
  /\ LoadWith(k, UpdateArgs(k, "stopped"))
  /\ hpc' = [hpc EXCEPT ![k] = "stop_answer"]
  /\ UNCHANGED <<regVars, calls, convVars, pureVars, hostVars, harg, hbot, hlive,
                 actual_status, answer, cmds>>

\* /stop, line 42: update_bot_status has returned, its value is not looked
\* at; the success message
StopAnswer(k) ==
  /\ hpc[k] = "stop_answer"
  /\ rpc[k] = "ret"
  /\ Answer(k, "stop_ok")
  /\ rpc' = [rpc EXCEPT ![k] = "idle"]
  /\ UNCHANGED <<regVars, rarg, rloc, rret, calls, convVars, pureVars, hostVars, harg,
                 hbot, hlive, actual_status, cmds>>

\* the container a provisioning run created and started for OldBot
OldContainer == [name |-> "a", status |-> "running", token |-> "tok0"]

\* owner 1 has deployed bot a: its record, directory, image and container
\* are there; or the container has since been removed from the runtime
InitOps ==
  /\ regState = "doc"
  /\ regDoc = [o \in {"1"} |-> [n \in {"a"} |-> OldBot]]
  /\ now = 0
  /\ deleted = {}
  /\ InitTasks
  /\ InitPure
  /\ dirs = [n \in {"a"} |-> "tok0"]
  /\ images = [n \in {"a"} |-> "tok0"]
  /\ containers \in {[i \in {1} |-> OldContainer], EmptyMap}
  /\ nextId = 2

NextOps ==
  \E k \in Callers :
    \/ StatusCommand(k)
    \/ GetStatus(k)
    \/ StatusUpdate(k)
    \/ StatusAnswer(k)
    \/ StopCommand(k)
    \/ StopContainer(k)
    \/ StopUpdate(k)
    \/ StopAnswer(k)
    \/ MutateCall(k)
    \/ OpenCall(k)
    \/ WriteCall(k)

SpecOps == InitOps /\ [][NextOps]_vars

\* ------------------------------------------ SpecName: process_name's check

\* the characters a text is made of: an ASCII lowercase letter, an ASCII
\* uppercase letter, a digit, underscore, hyphen, a non-ASCII letter (e
\* acute), a space and an exclamation mark; "z" is what lower() makes of "Z"
Chars == {"a", "Z", "7", "_", "-", "eacute", "sp", "bang"}

Texts == UNION {[1 .. n -> Chars] : n \in 0 .. MaxNameLen}

\* str.lower(), one character
lower_char(ch) == IF ch = "Z" THEN "z" ELSE ch

\* str.isalnum(), one character: letters and digits of any script
isalnum_char(ch) == ch \in {"a", "z", "Z", "7", "eacute"}

\* str.strip(): leading and trailing whitespace removed
RECURSIVE lstrip(_)
lstrip(s) == IF s # <<>> /\ Head(s) = "sp" THEN lstrip(Tail(s)) ELSE s

RECURSIVE rstrip(_)
rstrip(s) ==
  IF s # <<>> /\ s[Len(s)] = "sp" THEN rstrip(SubSeq(s, 1, Len(s) - 1)) ELSE s

strip(s) == rstrip(lstrip(s))

\* str.lower()
lower(s) == [i \in 1 .. Len(s) |-> lower_char(s[i])]

\* str.isalnum(): not empty and every character alphanumeric
isalnum(s) == Len(s) > 0 /\ \A i \in 1 .. Len(s) : isalnum_char(s[i])

\* process_name, line 85:
\* bot_name.replace('_', '').replace('-', '').isalnum()
name_accepted(name) ==
  LET Kept(ch) == ch \notin {"_", "-"}
  IN isalnum(SelectSeq(name, Kept))

\* process_name, lines 82-89: the text is stripped, lowered and checked
ValidateName ==
  /\ verdict = "none"
  /\ vname' = lower(strip(text))
  /\ verdict' = IF name_accepted(lower(strip(text))) THEN "accepted"
                ELSE "rejected"
  /\ UNCHANGED <<regVars, callVars, calls, convVars, hostVars, opsVars, text,
                 requirements, hashseed, plans>>

\* a user in waiting_name has sent a text
InitName ==
  /\ regState = "doc"
  /\ regDoc = EmptyMap
  /\ now = 0
  /\ deleted = {}
  /\ InitTasks
  /\ InitHost
  /\ text \in Texts
  /\ vname = <<>>
  /\ verdict = "none"
  /\ requirements = NoReq
  /\ hashseed = 0
  /\ plans = {}

NextName == ValidateName

SpecName == InitName /\ [][NextName]_vars

\* ------------------------------------- SpecPlan: ArchitectureAnalyzer

Range(q) == {q[i] : i \in 1 .. Len(q)}

Reverse(q) == [i \in 1 .. Len(q) |-> q[Len(q) + 1 - i]]

\* the features _design_handlers and _design_services look at, and one they
\* do not
Features == {"tracking", "reminder", "export", "listing"}

\* command tokens as RequirementParser leaves them: table entries, one in
\* capitals, one with a slash, and one the table does not know
Tokens == {"add", "Create", "/show", "remove", "zzz"}

CommandLists == UNION {[1 .. n -> Tokens] : n \in 0 .. MaxCommands}

\* cmd.lower().strip('/')
cmd_lower(cmd) ==
  CASE cmd = "Create" -> "create" [] cmd = "/show" -> "show" [] OTHER -> cmd

\* a table without synonyms: every token is its own handler
command_handlers_plain ==
  [add |-> "add", create |-> "create", list |-> "list", show |-> "show",
   delete |-> "delete", remove |-> "remove", update |-> "update",
   edit |-> "edit", search |-> "search", find |-> "find"]

\* _design_handlers, lines 46-57
command_handlers ==
  [add |-> "add", create |-> "add", list |-> "list", show |-> "list",
   delete |-> "delete", remove |-> "delete", update |-> "update",
   edit |-> "update", search |-> "search", find |-> "search"]

\* _design_handlers, lines 59-64: the loop over req.commands
RECURSIVE add_command_handlers(_, _)
add_command_handlers(commands, handlers) ==
  IF commands = <<>> THEN handlers
  ELSE LET cmd == cmd_lower(Head(commands))
           known == cmd \in DOMAIN command_handlers
       IN add_command_handlers(Tail(commands),
            IF known /\ command_handlers[cmd] \notin Range(handlers)
            THEN Append(handlers, command_handlers[cmd]) ELSE handlers)

\* _design_handlers, lines 67-72
add_feature_handlers(features, handlers) ==
  LET h1 == IF "tracking" \in features THEN Append(handlers, "track")
            ELSE handlers
      h2 == IF "reminder" \in features THEN Append(h1, "reminder") ELSE h1
  IN IF "export" \in features THEN Append(h2, "export") ELSE h2

\* every string a handler list can hold, in one fixed order
HandlerNames == <<"start", "help", "add", "create", "list", "show", "delete",
                  "remove", "update", "edit", "search", "find", "track",
                  "reminder", "export">>

\* the seeds an interpreter can start with (PYTHONHASHSEED is random unless
\* set): two of them, giving two iteration orders of a set of strings
Seeds == {0, 1}

\* list(set(xs)): the elements of xs once each, in the order the string
\* hashes of this interpreter give
list_set(xs, seed) ==
  LET In(h) == h \in Range(xs)
      asc == SelectSeq(HandlerNames, In)
  IN IF seed = 0 THEN asc ELSE Reverse(asc)

\* _design_handlers
design_handlers(req, seed) ==
  list_set(add_feature_handlers(req.features,
             add_command_handlers(req.commands, <<"start", "help">>)), seed)

\* xs with x appended when cond holds
AppendIf(xs, cond, x) == IF cond THEN Append(xs, x) ELSE xs

\* a _design_services that adds the scheduler for the tracking feature
design_services_tracking(req) ==
  AppendIf(AppendIf(AppendIf(AppendIf(AppendIf(<<>>,
    req.needs_database, "database"),
    req.needs_payments, "payment"),
    req.needs_api, "api_client"),
    "export" \in req.features, "exporter"),
    "tracking" \in req.features, "scheduler")

\* _design_services, lines 76-91
design_services(req) ==
  AppendIf(AppendIf(AppendIf(AppendIf(AppendIf(<<>>,
    req.needs_database, "database"),
    req.needs_payments, "payment"),
    req.needs_api, "api_client"),
    "export" \in req.features, "exporter"),
    "reminder" \in req.features, "scheduler")

\* _design_middleware, lines 93-100
design_middleware(req) ==
  AppendIf(<<"logging", "error_handler">>, req.needs_database, "db_session")

\* _design_dependencies, lines 102-123
design_dependencies(req) ==
  IF req.language = "python"
  THEN AppendIf(AppendIf(AppendIf(<<"aiogram", "python-dotenv">>,
         req.needs_database, "aiosqlite"),
         req.needs_api, "aiohttp"),
         "export" \in req.features, "pandas")
  ELSE AppendIf(AppendIf(AppendIf(<<"telegraf", "dotenv">>,
         req.needs_database, "better-sqlite3"),
         req.needs_api, "axios"),
         "export" \in req.features, "csv-writer")

\* _design_file_structure, lines 125-141: file names as <<stem, extension>>
design_file_structure(req, handlers, services) ==
  LET ext == IF req.language = "python" THEN "py" ELSE "js"
      main == IF req.language = "python" THEN "main" ELSE "index"
  IN [root |-> AppendIf(<<<<main, ext>>, <<"config", ext>>>>,
                        req.needs_database, <<"database", ext>>),
      handlers |-> [i \in 1 .. Len(handlers) |-> <<handlers[i], ext>>],
      services |-> [i \in 1 .. Len(services) |-> <<services[i], ext>>]]

\* _design_config_vars, lines 143-154
design_config_vars(req) ==
  LET v1 == AppendIf(<<"BOT_TOKEN">>, req.needs_database, "DATABASE_URL")
      v2 == IF req.needs_payments
            THEN v1 \o <<"PAYMENT_PROVIDER", "PAYMENT_API_KEY">> ELSE v1
  IN AppendIf(v2, req.needs_api, "API_KEY")

\* ArchitectureAnalyzer.analyze, lines 23-39
analyze(req, seed) ==
  [handlers |-> design_handlers(req, seed),
   services |-> design_services(req),
   middleware |-> design_middleware(req),
   dependencies |-> design_dependencies(req),
   file_structure |-> design_file_structure(req, design_handlers(req, seed),
                                            design_services(req)),
   config_vars |-> design_config_vars(req)]

\* process_token, line 145: analyzer.analyze(requirements)
Analyze ==
  /\ plans' = plans \cup {analyze(requirements, hashseed)}
  /\ UNCHANGED <<regVars, callVars, calls, convVars, hostVars, opsVars, text,
                 vname, verdict, requirements, hashseed>>

\* the process is started again: the interpreter draws a new hash seed
Restart ==
  /\ \E seed \in Seeds : hashseed' = seed
  /\ UNCHANGED <<regVars, callVars, calls, convVars, hostVars, opsVars, text,
                 vname, verdict, requirements, plans>>

\* a requirement set as RequirementParser.parse can return it, in a freshly
\* started process
InitPlan ==
  /\ regState = "doc"
  /\ regDoc = EmptyMap
  /\ now = 0
  /\ deleted = {}
  /\ InitTasks
  /\ InitHost
  /\ text = <<>>
  /\ vname = <<>>
  /\ verdict = "none"
  /\ requirements \in [features : SUBSET Features, commands : CommandLists,
                       language : {"python", "nodejs"},
                       needs_database : BOOLEAN, needs_payments : BOOLEAN,
                       needs_api : BOOLEAN]
  /\ hashseed \in Seeds
  /\ plans = {}

NextPlan == Analyze \/ Restart

SpecPlan == InitPlan /\ [][NextPlan]_vars

\* ------------------------------------------------------------------------
\* Claims about the registry (SpecReg)

SameFile == regState' = regState /\ regDoc' = regDoc

\* C1: a register_bot for an (owner, name) that an earlier register_bot has
\* already stored returns False and leaves the file exactly as it was, so the
\* stored record is still the first one (token, container id, status and
\* timestamps unchanged).
C1_SecondRegisterFails ==
  [][\A k \in Callers :
       (/\ LoadCall(k)
        /\ rarg'[k].op = "register_bot"
        /\ HasBot(Stored, rarg'[k].user_id, rarg'[k].bot_name))
       => (/\ rret'[k] = RetFalse
           /\ rpc'[k] = "ret"
           /\ SameFile)]_vars

\* C1 witness: a register_bot has returned True, a later register_bot for the
\* same key with another token has returned False, and the stored record
\* carries the first token.
C1_Witness ==
  \E k, j \in Callers :
    /\ k # j
    /\ rarg[k].op = "register_bot" /\ rarg[j].op = "register_bot"
    /\ rarg[k].user_id = rarg[j].user_id /\ rarg[k].bot_name = rarg[j].bot_name
    /\ rpc[k] = "ret" /\ rret[k] = RetFalse
    /\ rpc[j] = "ret" /\ rret[j] = RetTrue
    /\ HasBot(Stored, rarg[k].user_id, rarg[k].bot_name)
    /\ get_bot(Stored, rarg[k].user_id, rarg[k].bot_name).bot_token
         = rarg[j].bot_token

\* C3: update_bot_status for an (owner, name) that is not stored returns
\* False, writes nothing, and get_user_bots of every owner is the same before
\* and after.
C3_UpdateMissingFails ==
  [][\A k \in Callers :
       (/\ LoadCall(k)
        /\ rarg'[k].op = "update_bot_status"
        /\ ~HasBot(Stored, rarg'[k].user_id, rarg'[k].bot_name))
       => (/\ rret'[k] = RetFalse
           /\ rpc'[k] = "ret"
           /\ SameFile
           /\ \A u \in Owners :
                get_user_bots(load_registry(regState', regDoc'), u)
                  = get_user_bots(Stored, u))]_vars

\* C3 witness: an update_bot_status has returned False for a name its owner
\* does not have while the owner has another bot stored.
C3_Witness ==
  \E k \in Callers :
    /\ rarg[k].op = "update_bot_status"
    /\ rpc[k] = "ret" /\ rret[k] = RetFalse
    /\ ~HasBot(Stored, rarg[k].user_id, rarg[k].bot_name)
    /\ DOMAIN get_user_bots(Stored, rarg[k].user_id) # {}

\* C4: update_bot_status never resurrects a deleted record: once delete_bot has
\* returned True for a key and no register_bot has stored it again, an
\* update_bot_status that has returned True leaves the key absent.
C4_UpdateNeverResurrects ==
  \A k \in Callers :
    (/\ rarg[k].op = "update_bot_status"
     /\ rpc[k] = "ret" /\ rret[k] = RetTrue
     /\ <<rarg[k].user_id, rarg[k].bot_name>> \in deleted)
    => ~HasBot(Stored, rarg[k].user_id, rarg[k].bot_name)

\* C20: a save replaces the whole document: at every point of a save, and so
\* for every concurrent reader and after a crash at that point, the file
\* holds a complete document, the previous one or the new one, never nothing.
C20_SaveIsWholeDocument == regState = "doc"

\* the record that call a has put under its key is the one stored (for
\* delete_bot: no record is stored under its key)
Reflected(a) ==
  CASE a.op = "register_bot" ->
         /\ HasBot(Stored, a.user_id, a.bot_name)
         /\ get_bot(Stored, a.user_id, a.bot_name).bot_token = a.bot_token
    [] a.op = "update_bot_status" ->
         /\ HasBot(Stored, a.user_id, a.bot_name)
         /\ get_bot(Stored, a.user_id, a.bot_name).status = a.status
    [] OTHER -> ~HasBot(Stored, a.user_id, a.bot_name)

\* C31: when the two callers have each made one mutation, on two different
\* (owner, name) keys, and both mutations have returned True, the stored
\* document reflects both of them.
C31_NoLostUpdateAcrossKeys ==
  (/\ calls = 2
   /\ \A k \in Callers : rpc[k] = "ret" /\ rret[k] = RetTrue
   /\ <<rarg["k1"].user_id, rarg["k1"].bot_name>>
        # <<rarg["k2"].user_id, rarg["k2"].bot_name>>)
  => (Reflected(rarg["k1"]) /\ Reflected(rarg["k2"]))

\* C34: a get_bot returns only a record stored under the owner it was called
\* for, and the save of a register_bot or update_bot_status called for one
\* owner leaves the records of every other owner as they are stored at that
\* moment.
C34_OwnerIsolation ==
  [][\A k \in Callers :
       /\ (ReadCall(k) /\ rarg'[k].op = "get_bot" /\ rret'[k].val # EmptyMap)
          => (/\ HasBot(Stored, rarg'[k].user_id, rarg'[k].bot_name)
              /\ rret'[k].val
                   = get_bot(Stored, rarg'[k].user_id, rarg'[k].bot_name))
       /\ (/\ OpenCall(k)
           /\ regState = "doc"
           /\ rarg[k].op \in {"register_bot", "update_bot_status"})
          => \A u \in Owners \ {rarg[k].user_id} :
               get_user_bots(rloc[k], u) = get_user_bots(Stored, u)]_vars

\* C35: the save of an update_bot_status for (owner, name) keeps that
\* record's bot_token and created_at, keeps its container_id unless one was
\* passed, and leaves every other record of every owner as it is stored at
\* that moment.
C35_UpdateChangesOnlyItsRecord ==
  [][\A k \in Callers :
       (/\ OpenCall(k)
        /\ regState = "doc"
        /\ rarg[k].op = "update_bot_status")
       => \A u \in Owners, n \in Names :
            IF u = rarg[k].user_id /\ n = rarg[k].bot_name
            THEN HasBot(Stored, u, n)
                 => (/\ get_bot(rloc[k], u, n).bot_token
                          = get_bot(Stored, u, n).bot_token
                     /\ get_bot(rloc[k], u, n).created_at
                          = get_bot(Stored, u, n).created_at
                     /\ rarg[k].container_id = NoContainer
                        => get_bot(rloc[k], u, n).container_id
                             = get_bot(Stored, u, n).container_id)
            ELSE get_bot(rloc[k], u, n) = get_bot(Stored, u, n)]_vars

\* C28: no save replaces a stored record by one with another created_at or
\* an earlier updated_at, and the record saved has updated_at no earlier than
\* its created_at; so across registry operations created_at stays and
\* updated_at never decreases.
C28_TimestampsMonotonic ==
  [][\A k \in Callers :
       (OpenCall(k) /\ regState = "doc")
       => \A u \in Owners, n \in Names :
            (HasBot(regDoc, u, n) /\ HasBot(rloc[k], u, n))
            => (/\ get_bot(rloc[k], u, n).created_at
                     = get_bot(regDoc, u, n).created_at
                /\ get_bot(rloc[k], u, n).updated_at
                     >= get_bot(regDoc, u, n).updated_at
                /\ get_bot(rloc[k], u, n).updated_at
                     >= get_bot(rloc[k], u, n).created_at)]_vars

\* ------------------------------------------------------------------------
\* Claims about provisioning (Spec)

\* C2: of the register_bot calls that provisioning runs make for one
\* (owner, name), at most one returns True.
C2_AtMostOneRegisterSucceeds ==
  \A c1, c2 \in Convs :
    (/\ c1 # c2
     /\ rarg[c1].op = "register_bot" /\ rarg[c2].op = "register_bot"
     /\ rarg[c1].user_id = rarg[c2].user_id
     /\ rarg[c1].bot_name = rarg[c2].bot_name)
    => ~(rret[c1] = RetTrue /\ rret[c2] = RetTrue)

\* C32: the create_container of a run never removes a container whose id is
\* stored in a record of another owner: such a container, if it exists
\* before the step, exists after it.
C32_OtherOwnersWorkloadSurvives ==
  [][\A c \in Convs :
       CreateContainer(c)
       => \A u \in Owners \ {OwnerOf(c)}, n \in Names :
            (/\ HasBot(Stored, u, n)
             /\ get_bot(Stored, u, n).status = "running"
             /\ get_bot(Stored, u, n).container_id \in DOMAIN containers)
            => get_bot(Stored, u, n).container_id \in DOMAIN containers']_vars

\* C33: in every reachable state each owner has at most MAX_BOTS_PER_USER
\* records in the registry file.
C33_RecordsWithinLimit ==
  \A u \in Owners : count_user_bots(Stored, u) <= MAX_BOTS_PER_USER

\* C5: a run that begins while its owner already has MAX_BOTS_PER_USER bots
\* completes no stage: no directory, image, container or record comes from it.
C5_LimitBlocksProvisioning ==
  \A c \in Convs : run[c].atLimit => done[c] = <<>>

\* C6: when a run has ended because build_image failed, the bot directory it
\* made is gone and the registry has no record for its (owner, name).
C6_BuildFailureRemovesWorkspace ==
  \A c \in Convs :
    reply[c] = "err_build"
    => (/\ run[c].name \notin DOMAIN dirs
        /\ ~HasBot(Stored, OwnerOf(c), run[c].name))

\* C7: when a run has ended because start_container failed after
\* create_container succeeded, the registry holds a record for its
\* (owner, name) with status error and the id of the created container, and
\* the container and the bot directory are still there.
C7_StartFailureIsRecorded ==
  \A c \in Convs :
    reply[c] = "err_start"
    => (/\ HasBot(Stored, OwnerOf(c), run[c].name)
        /\ get_bot(Stored, OwnerOf(c), run[c].name).status = "error"
        /\ cid[c] # NoContainer
        /\ get_bot(Stored, OwnerOf(c), run[c].name).container_id = cid[c]
        /\ cid[c] \in DOMAIN containers
        /\ run[c].name \in DOMAIN dirs)

\* C8: a run whose register_bot returned False because the name was already
\* registered does not tell the user that the bot was deployed.
C8_ConflictIsReported ==
  \A c \in Convs :
    (reply[c] = "deployed" /\ rarg[c].op = "register_bot")
    => rret[c] # RetFalse

StageOrder == <<"materialize", "build", "create", "start", "register">>

IsPrefix(s, t) == Len(s) <= Len(t) /\ \A i \in 1 .. Len(s) : s[i] = t[i]

\* C9: the stages of a run are entered in the order materialize, build,
\* create, start, register; a stage is entered only when every earlier stage
\* of the run has completed; and register_bot, which writes the record with
\* status running, is called only after start_container succeeded.
C9_StagesInOrder ==
  \A c \in Convs :
    /\ IsPrefix(tried[c], StageOrder)
    /\ IsPrefix(done[c], tried[c])
    /\ Len(tried[c]) <= Len(done[c]) + 1
    /\ (rpc[c] # "idle" =>
          (/\ IsPrefix(<<"materialize", "build", "create", "start">>, done[c])
           /\ rarg[c].status = "running"))

\* C9 witness: a run has completed all five stages and its record is stored
\* with status running.
C9_Witness ==
  \E c \in Convs :
    /\ done[c] = StageOrder
    /\ HasBot(Stored, OwnerOf(c), run[c].name)
    /\ get_bot(Stored, OwnerOf(c), run[c].name).status = "running"
    /\ get_bot(Stored, OwnerOf(c), run[c].name).bot_token = TokenOf(c)

\* C10: a run that finds, when it is about to create the bot directory, the
\* name registered for its owner or the directory present, writes nothing: it
\* completes no stage.
C10_TakenNameStopsRun ==
  \A c \in Convs : run[c].taken => done[c] = <<>>

\* the replies that end a run in the except branch of process_token
FailReplies == {"err_generate", "err_mkdir", "err_write", "err_build",
                "err_create", "err_start"}

\* C11: the step that ends a run in failure leaves alone what the run did
\* not make: every container that was there before the step is still there
\* and as it was, and so are the files of every bot directory that held
\* files before the step (the run itself makes only the empty skeleton before
\* its write_files, and no container before its create_container).
C11_FailedRunLeavesOthersAlone ==
  [][\A c \in Convs :
       (pc[c] # "idle" /\ pc'[c] = "idle" /\ reply'[c] \in FailReplies)
       => (/\ \A i \in DOMAIN containers :
                i \in DOMAIN containers' /\ containers'[i] = containers[i]
           /\ \A n \in DOMAIN dirs :
                dirs[n] # "skeleton"
                => (n \in DOMAIN dirs' /\ dirs'[n] = dirs[n]))]_vars

\* C12: when a run has ended because create_container failed, its bot
\* directory is still there, the run has not called register_bot, and the
\* registry holds no record with the run's token for its (owner, name).
C12_CreateFailureKeepsWorkspace ==
  \A c \in Convs :
    reply[c] = "err_create"
    => (/\ run[c].name \in DOMAIN dirs
        /\ tried[c] = <<"materialize", "build", "create">>
        /\ rpc[c] = "idle"
        /\ (HasBot(Stored, OwnerOf(c), run[c].name)
              => get_bot(Stored, OwnerOf(c), run[c].name).bot_token
                   # TokenOf(c)))

\* C12 witness: a run has ended at create_container's failure after writing
\* its files and building its image; the directory holds the run's files and
\* the registry has no record for the name.
C12_Witness ==
  \E c \in Convs :
    /\ reply[c] = "err_create"
    /\ done[c] = <<"materialize", "build">>
    /\ run[c].name \in DOMAIN dirs
    /\ dirs[run[c].name] = TokenOf(c)
    /\ ~HasBot(Stored, OwnerOf(c), run[c].name)

\* C13: when a run that found no directory and no record for its name has
\* ended because create_bot_directory or write_files failed, the directory
\* it made is gone.
C13_WriteFailureRemovesDirectory ==
  \A c \in Convs :
    (reply[c] \in {"err_mkdir", "err_write"} /\ ~run[c].taken)
    => run[c].name \notin DOMAIN dirs

\* C17: no step leads to a state where two containers are called
\* botbuilder-<name>, for any name (and the runtime starts with no container);
\* and when create_container returns an id, the container of that id is the
\* only one of the run's name.
C17_OneContainerPerName ==
  [][/\ \A n \in Names :
          Cardinality({i \in DOMAIN containers' : containers'[i].name = n}) <= 1
     /\ \A c \in Convs :
          (CreateContainer(c) /\ cid'[c] # NoContainer)
          => {i \in DOMAIN containers' : containers'[i].name = data[c]}
               = {cid'[c]}]_vars

\* C17 witness: a run has created its container in place of the container
\* another run had created under the same name.
C17_Witness ==
  \E c, d \in Convs :
    /\ c # d
    /\ cid[c] # NoContainer /\ cid[d] # NoContainer /\ cid[c] # cid[d]
    /\ run[c].name = run[d].name
    /\ ContainersNamed(run[c].name) = {cid[c]}
    /\ cid[d] \notin DOMAIN containers

\* C19: a start_container that fails, the container being gone or the runtime
\* refusing, returns False to process_token, which ends the run with its own
\* "Failed to start container" error, and leaves every container as it was.
C19_FailedStartChangesNothing ==
  [][\A c \in Convs :
       (StartContainer(c) /\ done'[c] = done[c])
       => (/\ containers' = containers
           /\ reply'[c] = "err_start"
           /\ pc'[c] = "idle")]_vars

\* C19 witness: a run has ended at start_container's failure, the runtime
\* having refused to start the container the run had created, and that
\* container is still in the state created.
C19_Witness ==
  \E c \in Convs :
    /\ reply[c] = "err_start"
    /\ tried[c] = <<"materialize", "build", "create", "start">>
    /\ cid[c] \in DOMAIN containers
    /\ containers[cid[c]].status = "created"

\* ------------------------------------------------------------------------
\* Claims about /status and /stop (SpecOps)

\* C14: when a /status whose get_container_status returned the live status
\* answers, the record stored for the bot carries the status the answer shows.
C14_QueryReconcilesRegistry ==
  [][\A k \in Callers :
       (/\ hpc[k] \in {"get_status", "status_answer"}
        /\ hpc'[k] = "idle"
        /\ hlive'[k] = "ok")
       => (/\ HasBot(load_registry(regState', regDoc'),
                     harg[k].user_id, harg[k].bot_name)
           /\ get_bot(load_registry(regState', regDoc'),
                      harg[k].user_id, harg[k].bot_name).status
                = answer'[k])]_vars

\* the statuses a record may carry
RecordStatuses == {"pending", "building", "running", "stopped", "error"}

\* C15: the status of every stored record is one of pending, building,
\* running, stopped and error.
C15_StatusInVocabulary ==
  \A u \in Owners, n \in Names :
    HasBot(Stored, u, n) => get_bot(Stored, u, n).status \in RecordStatuses

\* C16: a /status whose get_container_status raised writes nothing and starts
\* no registry call, and answers with the status it read from the record: it
\* shows stopped or error only when the record already said so.
C16_FailedQueryChangesNothing ==
  [][\A k \in Callers :
       (GetStatus(k) /\ hlive'[k] = "error")
       => (/\ SameFile
           /\ rpc'[k] = "idle"
           /\ hpc'[k] = "idle"
           /\ answer'[k] = hbot[k].status)]_vars

\* C16 witness: a /status read the status stopped, written by an earlier
\* /stop that left the container exited; its Docker call raised; it has
\* answered stopped and the record is still as it was read.
C16_Witness ==
  \E k \in Callers :
    /\ harg[k].cmd = "status" /\ hpc[k] = "idle" /\ hlive[k] = "error"
    /\ hbot[k].container_id \in DOMAIN containers
    /\ containers[hbot[k].container_id].status = "exited"
    /\ hbot[k].status = "stopped"
    /\ answer[k] = "stopped"
    /\ get_bot(Stored, harg[k].user_id, harg[k].bot_name) = hbot[k]

\* C18: stop_container on a container that has already exited changes no
\* container, and returns True unless the Docker daemon cannot be reached.
C18_StopIsIdempotent ==
  [][\A k \in Callers :
       (/\ StopContainer(k)
        /\ hbot[k].container_id \in DOMAIN containers
        /\ containers[hbot[k].container_id].status = "exited")
       => (/\ containers' = containers
           /\ hlive'[k] \in {"ok", "error"}
           /\ hlive'[k] = "ok" => hpc'[k] = "stop_update"
           /\ hlive'[k] = "error" => answer'[k] = "stop_failed")]_vars

\* C18 witness: a /stop that read the status stopped, written by an earlier
\* /stop, has had True from stop_container, and the container is exited.
C18_Witness ==
  \E k \in Callers :
    /\ hpc[k] = "stop_update" /\ hlive[k] = "ok"
    /\ hbot[k].status = "stopped"
    /\ containers[hbot[k].container_id].status = "exited"

\* ------------------------------------------------------------------------
\* Claims about the creation conversation (SpecLive)

RejectReplies == {"short", "invalid_name", "taken", "conflict", "invalid_token"}

\* C22: a handler step that rejects a description, a name or a token changes
\* neither BOTS_DIR, nor the images and containers, nor the registry file,
\* starts no run, and leaves the conversation's FSM state and data as they
\* were.
C22_RejectionTouchesNothing ==
  [][\A c \in Convs :
       ((ProcessDescription(c) \/ ProcessName(c) \/ ProcessToken(c))
        /\ reply'[c] \in RejectReplies)
       => (/\ hostVars' = hostVars
           /\ SameFile
           /\ pc'[c] = "idle"
           /\ fsm'[c] = fsm[c]
           /\ fsm'[c] # "none"
           /\ data'[c] = data[c])]_vars

\* a name was refused because its directory exists, with the conversation
\* still waiting for a name
C22_Witness ==
  \E c \in Convs :
    /\ reply[c] = "conflict"
    /\ fsm[c] = "waiting_name"
    /\ pc[c] = "idle"
    /\ dirs # EmptyMap

RunOutcomes == FailReplies \cup {"deployed"}

C21_AbsentFileIsEmptyMapping ==
  [][\A k \in Callers :
       /\ (ReadCall(k) /\ regState = "absent")
          => rret'[k] = [ok |-> "value", val |->
               CASE rarg'[k].op = "get_bot" ->
                      get_bot(EmptyMap, rarg'[k].user_id, rarg'[k].bot_name)
                 [] rarg'[k].op = "get_user_bots" ->
                      get_user_bots(EmptyMap, rarg'[k].user_id)
                 [] OTHER -> count_user_bots(EmptyMap, rarg'[k].user_id)]
       /\ (LoadCall(k) /\ regState = "absent")
          => IF rarg'[k].op = "register_bot"
             THEN rpc'[k] = "mutate"
             ELSE rret'[k] = RetFalse]_vars

\* C29: a /stop whose stop_container returned True has set the stored status:
\* when it answers, its update_bot_status(..., "stopped") has returned True;
\* a /stop for an unknown bot or a bot without container id writes nothing
\* and does not call the runtime; and a /stop whose stop_container returned
\* False writes nothing and starts no registry call.
C29_StopSetsStatusIffStopped ==
  [][\A k \in Callers :
       /\ StopAnswer(k) => rret[k] = RetTrue
       /\ (StopCommand(k) /\ hpc'[k] = "idle")
          => (SameFile /\ containers' = containers /\ rpc'[k] = "idle"
              /\ hlive'[k] = "none")
       /\ (StopContainer(k) /\ hpc'[k] = "idle")
          => (SameFile /\ rpc'[k] = "idle")]_vars

\* ------------------------------------------------------------------------
\* Claims about the name check (SpecName)

\* the characters of [a-z0-9_-]
InNameClass(ch) == ch \in {"a", "z", "7", "_", "-"}

\* the string matches [a-z0-9_-]+
MatchesNamePattern(s) == Len(s) > 0 /\ \A i \in 1 .. Len(s) : InNameClass(s[i])

\* C23: every bot name that process_name accepts matches [a-z0-9_-]+, and
\* every text that matches [a-z0-9_-]+ is accepted.
C23_NamePattern ==
  verdict # "none"
  => (/\ verdict = "accepted" => MatchesNamePattern(vname)
      /\ MatchesNamePattern(text) => verdict = "accepted")

\* ------------------------------------------------------------------------
\* Claims about the analyzer (SpecPlan)

\* C24: analyze is deterministic: all the architectures it has returned for
\* one requirement set are the same, list orders included.
C24_AnalyzeIsDeterministic == Cardinality(plans) <= 1

\* the service a configuration variable is for: both are added under the same
\* condition in _design_services and _design_config_vars
ServiceOfVar(v) ==
  CASE v = "DATABASE_URL" -> "database"
    [] v \in {"PAYMENT_PROVIDER", "PAYMENT_API_KEY"} -> "payment"
    [] v = "API_KEY" -> "api_client"
    [] OTHER -> "none"

\* C25: in every architecture returned, every service of services has a
\* configuration variable of its own in config_vars.
C25_ServicesHaveConfigVars ==
  \A a \in plans :
    \A sv \in Range(a.services) :
      \E v \in Range(a.config_vars) : ServiceOfVar(v) = sv

\* the canonical handler of a command token, for the tokens of the table
Canonical(cmd) ==
  CASE cmd \in {"add", "create"} -> "add"
    [] cmd \in {"list", "show"} -> "list"
    [] cmd \in {"delete", "remove"} -> "delete"
    [] cmd \in {"update", "edit"} -> "update"
    [] cmd \in {"search", "find"} -> "search"
    [] OTHER -> "none"

\* the handler set the requirement set calls for
ExpectedHandlers(req) ==
  {"start", "help"}
  \cup ({Canonical(cmd_lower(c)) : c \in Range(req.commands)} \ {"none"})
  \cup (IF "tracking" \in req.features THEN {"track"} ELSE {})
  \cup (IF "reminder" \in req.features THEN {"reminder"} ELSE {})
  \cup (IF "export" \in req.features THEN {"export"} ELSE {})

\* C26: the handlers of every architecture returned are, without duplicates,
\* start and help, the canonical handlers of the command tokens and the
\* handlers of the features present; so synonymous tokens give the same set
\* and a requirement set with no command and no feature gives start and help.
C26_HandlerSet ==
  \A a \in plans :
    /\ Range(a.handlers) = ExpectedHandlers(requirements)
    /\ Len(a.handlers) = Cardinality(Range(a.handlers))

\* C26 witness: an architecture returned for the commands Create and add has
\* the three handlers start, help and add.
C26_Witness ==
  \E a \in plans :
    /\ Range(requirements.commands) = {"Create", "add"}
    /\ requirements.features = {}
    /\ Range(a.handlers) = {"start", "help", "add"}
    /\ Len(a.handlers) = 3

\* C27: in every architecture returned, each service is present exactly when
\* its flag or feature is; and with none of them the service list is empty
\* and config_vars holds BOT_TOKEN alone.
C27_ServicesFollowFlags ==
  \A a \in plans :
    /\ "database" \in Range(a.services) <=> requirements.needs_database
    /\ "payment" \in Range(a.services) <=> requirements.needs_payments
    /\ "api_client" \in Range(a.services) <=> requirements.needs_api
    /\ "exporter" \in Range(a.services) <=> "export" \in requirements.features
    /\ "scheduler" \in Range(a.services)
         <=> "reminder" \in requirements.features
    /\ Range(a.services) \subseteq
         {"database", "payment", "api_client", "exporter", "scheduler"}
    /\ (/\ ~requirements.needs_database /\ ~requirements.needs_payments
        /\ ~requirements.needs_api
        /\ "export" \notin requirements.features
        /\ "reminder" \notin requirements.features)
       => (a.services = <<>> /\ a.config_vars = <<"BOT_TOKEN">>)

\* C27 witness: an architecture returned for the reminder feature and the
\* payments flag has the services payment and scheduler and no other.
C27_Witness ==
  \E a \in plans :
    /\ requirements.needs_payments /\ ~requirements.needs_database
    /\ ~requirements.needs_api
    /\ requirements.features = {"reminder", "tracking"}
    /\ a.services = <<"payment", "scheduler">>

====
